---- MODULE Spec2Model ----
(***************************************************************************)
(* State-machine model of the campus marketplace request handlers          *)
(* (src/market/views.py) over the relational schema of                     *)
(* src/market/models.py.  Every table is a set of rows (records carrying   *)
(* their primary key), every handler is one action that performs the whole *)
(* request: lookups, early returns, writes and cascades.  The handlers     *)
(* whose concurrent execution is studied (cart_add, product_detail,        *)
(* product_edit) are modelled a second time statement by statement, run by *)
(* two workers whose steps interleave.                                     *)
(*                                                                         *)
(* Text values (product names, message bodies, search queries) are         *)
(* sequences of one-character strings so that strip() and icontains can be *)
(* computed as the code computes them.  Prices are integer cents.          *)
(* created_at / timestamp columns are auto_now_add values; rows of one     *)
(* table are inserted one request at a time, so their order is the order   *)
(* of the primary keys and "-created_at" is modelled as "descending pk".   *)
(***************************************************************************)
EXTENDS Integers, Sequences, FiniteSets, TLC

(***************************************************************************)
(* Bounds of the model.                                                    *)
(***************************************************************************)
\* number of requests served in one behaviour; every primary key, quantity
\* and view counter is bounded by it
MaxRequests == 4
\* number of Product rows ever inserted
MaxProducts == 2

(***************************************************************************)
(* Users are owned by the identity provider; the handlers only compare     *)
(* them.  Anonymous is request.user of an unauthenticated request.         *)
(***************************************************************************)
Users == {"alice", "bob", "carol"}
Anonymous == "anonymous"
Requesters == Users \cup {Anonymous}
Methods == {"GET", "POST"}
\* The value of a nullable foreign key that is NULL / Python None.
None == 0

CATEGORY_CHOICES == {"electronics", "books", "clothing", "furniture", "sports", "other"}
CONDITION_CHOICES == {"new", "like_new", "good", "fair"}
\* Product.name max_length
NameMaxLength == 100
\* Paginator(products, 12) and the [:12] slices
PageSize == 12
\* similar products slice [:4]
SimilarSize == 4
\* Rating validators
MinRating == 1
MaxRating == 5

VARIABLES
    products,       \* Product rows
    carts,          \* Cart rows
    conversations,  \* Conversation rows
    msgs,           \* Message rows
    ratings,        \* Rating rows
    productviews,   \* ProductView rows
    seq,            \* per table: the primary key the next INSERT gets
    request,        \* the last request served: view, request.user, pk of the URL, method
    response,       \* what it returned: status and flash message
    requests,       \* number of requests served so far
    workers         \* per server worker: the request it is in the middle of

vars == <<products, carts, conversations, msgs, ratings, productviews, seq,
          request, response, requests, workers>>

Tables == {"product", "cart", "conversation", "message", "rating", "productview"}

(***************************************************************************)
(* Text helpers.                                                           *)
(***************************************************************************)
Whitespace == {" ", "\t", "\n"}

RECURSIVE LStrip(_)
LStrip(s) == IF s # <<>> /\ Head(s) \in Whitespace THEN LStrip(Tail(s)) ELSE s

RECURSIVE RStrip(_)
RStrip(s) ==
    IF s # <<>> /\ s[Len(s)] \in Whitespace THEN RStrip(SubSeq(s, 1, Len(s) - 1)) ELSE s

\* str.strip()
Strip(s) == RStrip(LStrip(s))

\* str.lower() on the letters the model's texts use
LowerChar(c) ==
    CASE c = "A" -> "a" [] c = "B" -> "b" [] c = "D" -> "d" [] c = "K" -> "k"
      [] c = "L" -> "l" [] c = "M" -> "m" [] c = "O" -> "o" [] c = "P" -> "p"
      [] OTHER -> c

Lower(s) == [i \in 1..Len(s) |-> LowerChar(s[i])]

\* field__icontains=needle : case-insensitive substring match
IContains(field, needle) ==
    \E i \in 0..(Len(field) - Len(needle)) :
        SubSeq(Lower(field), i + 1, i + Len(needle)) = Lower(needle)

(***************************************************************************)
(* Row lookups (QuerySet.filter) and the response of a handler.            *)
(***************************************************************************)
Req(view, user, pk, method) == [view |-> view, user |-> user, pk |-> pk, method |-> method]
Resp(status, message) == [status |-> status, message |-> message]

ProductByPk(pk) == {p \in products : p.pk = pk}
CartByPk(pk) == {c \in carts : c.pk = pk}
ConversationByPk(pk) == {c \in conversations : c.pk = pk}

\* Primary keys a request can name: every key handed out so far and the next,
\* which no row has.
PksOf(table) == 1..seq[table]

\* AutoField: the key of the row being inserted, and the sequence after it
NextSeq(table) == [seq EXCEPT ![table] = @ + 1]

\* @login_required: an unauthenticated request is redirected to the login page
LoginRedirect == Resp("LoginRedirect", "")

\* The server runs two workers.  A worker is idle, or in the middle of a
\* request: pc is the statement it executes next, loaded the model instance it
\* read (as a set: empty before the read), form the bound form, created the
\* flag get_or_create returned, retried whether its INSERT met the unique
\* constraint, fresh whether the looked-up row was absent when the request
\* arrived, status the response once it has returned.
Workers == {"w1", "w2"}

Idle ==
    [pc |-> "idle", view |-> "none", user |-> Anonymous, pk |-> None, loaded |-> {},
     form |-> {}, created |-> FALSE, retried |-> FALSE, fresh |-> FALSE, status |-> "none"]

\* every handler serves one request
Serve(view, user, pk, method) ==
    /\ requests < MaxRequests
    /\ requests' = requests + 1
    /\ request' = Req(view, user, pk, method)
    /\ UNCHANGED workers

Init ==
    /\ products = {}
    /\ carts = {}
    /\ conversations = {}
    /\ msgs = {}
    /\ ratings = {}
    /\ productviews = {}
    /\ seq = [t \in Tables |-> 1]
    /\ request = Req("none", Anonymous, None, "GET")
    /\ response = Resp("none", "")
    /\ requests = 0
    /\ workers = [w \in Workers |-> Idle]

(***************************************************************************)
(* Product handlers.                                                       *)
(***************************************************************************)
\* ProductForm.is_valid(): required name (max_length 100) and description,
\* both stripped by their form fields, price >= 0, category and condition
\* among the choices
ProductFormValid(form) ==
    /\ Len(Strip(form.name)) > 0
    /\ Len(Strip(form.name)) <= NameMaxLength
    /\ Len(Strip(form.description)) > 0
    /\ form.price >= 0
    /\ form.category \in CATEGORY_CHOICES
    /\ form.condition \in CONDITION_CHOICES

\* The Product row a valid ProductForm saves over `row` (the form owns these
\* fields only; pk, seller and views_count stay as loaded)
ProductFormSave(row, form) ==
    [row EXCEPT !.name = Strip(form.name), !.description = Strip(form.description),
                !.price = form.price, !.category = form.category,
                !.condition = form.condition, !.is_available = form.is_available]

\* A fresh Product(): views_count default 0
NewProduct(pk, seller) ==
    [pk |-> pk, seller |-> seller, name |-> <<>>, description |-> <<>>, price |-> 0,
     category |-> "other", condition |-> "good", is_available |-> TRUE, views_count |-> 0]

product_create(user, method, form) ==
    /\ Serve("product_create", user, None, method)
    /\ IF user = Anonymous
       THEN /\ response' = LoginRedirect
            /\ UNCHANGED <<products, seq>>
       ELSE IF method = "POST" /\ ProductFormValid(form)
       THEN /\ seq["product"] <= MaxProducts
            /\ products' = products \cup
                    {ProductFormSave(NewProduct(seq["product"], user), form)}
            /\ seq' = NextSeq("product")
            /\ response' = Resp("Redirect", "Product listed successfully!")
       ELSE /\ response' = Resp("OK", "")
            /\ UNCHANGED <<products, seq>>
    /\ UNCHANGED <<carts, conversations, msgs, ratings, productviews>>

\* get_object_or_404(Product, pk=pk, seller=request.user)
OwnedProduct(user, pk) == {p \in ProductByPk(pk) : p.seller = user}

product_edit(user, pk, method, form) ==
    /\ Serve("product_edit", user, pk, method)
    /\ IF user = Anonymous
       THEN /\ response' = LoginRedirect
            /\ UNCHANGED products
       ELSE IF OwnedProduct(user, pk) = {}
       THEN /\ response' = Resp("NotFound", "")
            /\ UNCHANGED products
       ELSE IF method = "POST" /\ ProductFormValid(form)
       THEN /\ products' = {IF p \in OwnedProduct(user, pk) THEN ProductFormSave(p, form) ELSE p
                                : p \in products}
            /\ response' = Resp("Redirect", "Product updated successfully!")
       ELSE /\ response' = Resp("OK", "")
            /\ UNCHANGED products
    /\ UNCHANGED <<carts, conversations, msgs, ratings, productviews, seq>>

\* on_delete=CASCADE from Product: Cart, Conversation (and its Messages),
\* Rating and ProductView rows of the product go with it
product_delete(user, pk, method) ==
    /\ Serve("product_delete", user, pk, method)
    /\ IF user # Anonymous /\ OwnedProduct(user, pk) # {} /\ method = "POST"
       THEN /\ products' = products \ OwnedProduct(user, pk)
            /\ carts' = {c \in carts : c.product # pk}
            /\ conversations' = {c \in conversations : c.product # pk}
            /\ msgs' = {m \in msgs :
                            \A c \in conversations : c.product = pk => m.conversation # c.pk}
            /\ ratings' = {r \in ratings : r.product # pk}
            /\ productviews' = {v \in productviews : v.product # pk}
            /\ response' = Resp("Redirect", "Product deleted successfully!")
       ELSE /\ response' =
                    IF user = Anonymous THEN LoginRedirect
                    ELSE IF OwnedProduct(user, pk) = {}
                         THEN Resp("NotFound", "")
                         ELSE Resp("OK", "")
            /\ UNCHANGED <<products, carts, conversations, msgs, ratings, productviews>>
    /\ UNCHANGED seq

(***************************************************************************)
(* Cart handlers.                                                          *)
(***************************************************************************)
\* Cart.objects.filter(buyer=..., product=...) : the lookup of get_or_create
CartOf(buyer, product) == {c \in carts : c.buyer = buyer /\ c.product = product}

\* mutant of CartAfterAdd: Cart.objects.create(...) instead of get_or_create
CartAfterAdd_create(buyer, product) ==
    carts \cup {[pk |-> seq["cart"], buyer |-> buyer, product |-> product, quantity |-> 1]}

\* Cart.objects.get_or_create(buyer, product, defaults={'quantity': 1}), then
\* `if not created: quantity += 1; save()` : the Cart table afterwards
CartAfterAdd(buyer, product) ==
    IF CartOf(buyer, product) = {}
    THEN carts \cup {[pk |-> seq["cart"], buyer |-> buyer, product |-> product, quantity |-> 1]}
    ELSE {IF c \in CartOf(buyer, product) THEN [c EXCEPT !.quantity = @ + 1] ELSE c : c \in carts}

\* mutant of cart_add: the `product.seller == request.user` refusal lost
cart_add_ownproduct(user, pk, method) ==
    /\ Serve("cart_add", user, pk, method)
    /\ IF user = Anonymous
       THEN /\ response' = LoginRedirect
            /\ UNCHANGED <<carts, seq>>
       ELSE IF method # "POST"
       THEN /\ response' = Resp("MethodNotAllowed", "")
            /\ UNCHANGED <<carts, seq>>
       ELSE IF ProductByPk(pk) = {}
       THEN /\ response' = Resp("NotFound", "")
            /\ UNCHANGED <<carts, seq>>
       ELSE /\ carts' = CartAfterAdd(user, pk)
            /\ seq' = IF CartOf(user, pk) = {} THEN NextSeq("cart") ELSE seq
            /\ response' = Resp("OK", "Product added to cart")
    /\ UNCHANGED <<products, conversations, msgs, ratings, productviews>>

cart_add(user, pk, method) ==
    /\ Serve("cart_add", user, pk, method)
    /\ IF user = Anonymous
       THEN /\ response' = LoginRedirect
            /\ UNCHANGED <<carts, seq>>
       ELSE IF method # "POST"
       THEN /\ response' = Resp("MethodNotAllowed", "")
            /\ UNCHANGED <<carts, seq>>
       ELSE IF ProductByPk(pk) = {}
       THEN /\ response' = Resp("NotFound", "")
            /\ UNCHANGED <<carts, seq>>
       ELSE IF \E p \in ProductByPk(pk) : p.seller = user
       THEN /\ response' = Resp("BadRequest", "Cannot add your own product to cart")
            /\ UNCHANGED <<carts, seq>>
       ELSE /\ carts' = CartAfterAdd(user, pk)
            /\ seq' = IF CartOf(user, pk) = {} THEN NextSeq("cart") ELSE seq
            /\ response' = Resp("OK", "Product added to cart")
    /\ UNCHANGED <<products, conversations, msgs, ratings, productviews>>

\* mutant of OwnedCart: get_object_or_404(Cart, pk=pk), the buyer filter lost
OwnedCart_anybuyer(user, pk) == CartByPk(pk)

\* get_object_or_404(Cart, pk=pk, buyer=request.user)
OwnedCart(user, pk) == {c \in CartByPk(pk) : c.buyer = user}

cart_remove(user, pk, method) ==
    /\ Serve("cart_remove", user, pk, method)
    /\ IF user = Anonymous
       THEN /\ response' = LoginRedirect
            /\ UNCHANGED carts
       ELSE IF method # "POST"
       THEN /\ response' = Resp("MethodNotAllowed", "")
            /\ UNCHANGED carts
       ELSE IF OwnedCart(user, pk) = {}
       THEN /\ response' = Resp("NotFound", "")
            /\ UNCHANGED carts
       ELSE /\ carts' = carts \ OwnedCart(user, pk)
            /\ response' = Resp("Redirect", "Item removed from cart")
    /\ UNCHANGED <<products, conversations, msgs, ratings, productviews, seq>>

\* An integer parameter of a request: absent, a decimal numeral, or text that
\* int() rejects.  int(request.POST.get('quantity', 1)) raises ValueError on
\* such text and takes 1 for an absent field
IntAbsent == [kind |-> "absent", value |-> 0]
IntText == [kind |-> "text", value |-> 0]
IntNumeral(n) == [kind |-> "numeral", value |-> n]
ParseInt(field) ==
    CASE field.kind = "absent" -> [ok |-> TRUE, value |-> 1]
      [] field.kind = "numeral" -> [ok |-> TRUE, value |-> field.value]
      [] OTHER -> [ok |-> FALSE, value |-> 0]

\* mutant of CartAfterUpdate: `if quantity >= 0` instead of `if quantity > 0`
CartAfterUpdate_ge(user, pk, quantity) ==
    IF quantity >= 0
    THEN {IF c \in CartByPk(pk) /\ c.buyer = user THEN [c EXCEPT !.quantity = quantity] ELSE c
            : c \in carts}
    ELSE {c \in carts : ~(c.pk = pk /\ c.buyer = user)}

\* the Cart table after the body of cart_update ran for the owner's row
CartAfterUpdate(user, pk, quantity) ==
    IF quantity > 0
    THEN {IF c \in OwnedCart(user, pk) THEN [c EXCEPT !.quantity = quantity] ELSE c : c \in carts}
    ELSE carts \ OwnedCart(user, pk)

cart_update(user, pk, method, field) ==
    /\ Serve("cart_update", user, pk, method)
    /\ IF user = Anonymous
       THEN /\ response' = LoginRedirect
            /\ UNCHANGED carts
       ELSE IF method # "POST"
       THEN /\ response' = Resp("MethodNotAllowed", "")
            /\ UNCHANGED carts
       ELSE IF OwnedCart(user, pk) = {}
       THEN /\ response' = Resp("NotFound", "")
            /\ UNCHANGED carts
       ELSE IF ~ParseInt(field).ok
       THEN /\ response' = Resp("ServerError", "ValueError")
            /\ UNCHANGED carts
       ELSE /\ carts' = CartAfterUpdate(user, pk, ParseInt(field).value)
            /\ response' = Resp("Redirect",
                                IF ParseInt(field).value > 0
                                THEN "Cart updated" ELSE "Item removed from cart")
    /\ UNCHANGED <<products, conversations, msgs, ratings, productviews, seq>>

(***************************************************************************)
(* Conversation handlers.                                                  *)
(***************************************************************************)
\* a text field of request.POST: absent from the form data, or posted text
FieldAbsent == [given |-> FALSE, text |-> <<>>]
Field(text) == [given |-> TRUE, text |-> text]

\* request.POST.get('message', '').strip()
MessageContent(field) == IF field.given THEN Strip(field.text) ELSE <<>>

\* mutant of ContentTruthy: `if content:` without the strip() test
ContentTruthy_nostrip(field) == field.given /\ field.text # <<>>

\* request.POST.get('content'), None when absent; `content and content.strip()`
ContentTruthy(field) == field.given /\ field.text # <<>> /\ Strip(field.text) # <<>>

\* Conversation.objects.filter(product=, buyer=, seller=)
ConversationOf(product, buyer, seller) ==
    {c \in conversations : c.product = product /\ c.buyer = buyer /\ c.seller = seller}

\* mutant of ConversationGetOrCreate: Conversation.objects.create(...)
ConversationGetOrCreate_create(product, buyer, seller) ==
    [pk |-> seq["conversation"], product |-> product, buyer |-> buyer, seller |-> seller]

\* Conversation.objects.get_or_create(product=, buyer=, seller=): the row
ConversationGetOrCreate(product, buyer, seller) ==
    IF ConversationOf(product, buyer, seller) = {}
    THEN [pk |-> seq["conversation"], product |-> product, buyer |-> buyer, seller |-> seller]
    ELSE CHOOSE c \in ConversationOf(product, buyer, seller) : TRUE

\* Message.objects.create(...): read defaults to False
NewMessage(conversation, sender, receiver, content) ==
    [pk |-> seq["message"], conversation |-> conversation, sender |-> sender,
     receiver |-> receiver, content |-> content, read |-> FALSE]

start_conversation(user, pk, method, field) ==
    /\ Serve("start_conversation", user, pk, method)
    /\ IF user = Anonymous
       THEN /\ response' = LoginRedirect
            /\ UNCHANGED <<conversations, msgs, seq>>
       ELSE IF ProductByPk(pk) = {}
       THEN /\ response' = Resp("NotFound", "")
            /\ UNCHANGED <<conversations, msgs, seq>>
       ELSE LET product == CHOOSE p \in ProductByPk(pk) : TRUE
                existing_conversation == ConversationOf(pk, user, product.seller)
                content == MessageContent(field)
                conversation == ConversationGetOrCreate(pk, user, product.seller)
            IN  IF product.seller = user
                THEN /\ response' = Resp("Redirect",
                                         "You cannot message yourself about your own product")
                     /\ UNCHANGED <<conversations, msgs, seq>>
                ELSE IF method = "POST" /\ content # <<>>
                THEN /\ conversations' = conversations \cup {conversation}
                     /\ msgs' = msgs \cup
                            {NewMessage(conversation.pk, user, product.seller, content)}
                     /\ seq' = [seq EXCEPT
                                  !["conversation"] =
                                      IF conversation \in conversations THEN @ ELSE @ + 1,
                                  !["message"] = @ + 1]
                     /\ response' = Resp("Redirect", "Message sent successfully!")
                ELSE /\ response' =
                            Resp(IF existing_conversation # {} THEN "Redirect" ELSE "OK",
                                 IF method = "POST" THEN "Please write a message" ELSE "")
                     /\ UNCHANGED <<conversations, msgs, seq>>
    /\ UNCHANGED <<products, carts, ratings, productviews>>

\* mutant of IsParticipant: the membership check dropped
IsParticipant_anyone(conversation, user) == TRUE

\* request.user in [conversation.buyer, conversation.seller]
IsParticipant(conversation, user) == user \in {conversation.buyer, conversation.seller}

\* mutant of Receiver: always the seller
Receiver_seller(conversation, user) == conversation.seller

\* the other person in the conversation
Receiver(conversation, user) ==
    IF conversation.buyer = user THEN conversation.seller ELSE conversation.buyer

\* mutant of MarkRead: filter(sender=request.user, ...) instead of receiver
MarkRead_sender(conversation, user) ==
    {IF m.conversation = conversation.pk /\ m.sender = user /\ ~m.read
     THEN [m EXCEPT !.read = TRUE] ELSE m : m \in msgs}

\* mutant of MarkRead: the receiver filter dropped
MarkRead_all(conversation, user) ==
    {IF m.conversation = conversation.pk /\ ~m.read THEN [m EXCEPT !.read = TRUE] ELSE m
        : m \in msgs}

\* conversation.messages.filter(receiver=request.user, read=False).update(read=True)
MarkRead(conversation, user) ==
    {IF m.conversation = conversation.pk /\ m.receiver = user /\ ~m.read
     THEN [m EXCEPT !.read = TRUE] ELSE m : m \in msgs}

conversation_detail(user, pk, method, field) ==
    /\ Serve("conversation_detail", user, pk, method)
    /\ IF user = Anonymous
       THEN /\ response' = LoginRedirect
            /\ UNCHANGED <<msgs, seq>>
       ELSE IF ConversationByPk(pk) = {}
       THEN /\ response' = Resp("NotFound", "")
            /\ UNCHANGED <<msgs, seq>>
       ELSE LET conversation == CHOOSE c \in ConversationByPk(pk) : TRUE
            IN  IF ~IsParticipant(conversation, user)
                THEN /\ response' = Resp("Forbidden", "You are not part of this conversation.")
                     /\ UNCHANGED <<msgs, seq>>
                ELSE IF method = "POST" /\ ContentTruthy(field)
                THEN /\ msgs' = msgs \cup
                            {NewMessage(pk, user, Receiver(conversation, user),
                                        Strip(field.text))}
                     /\ seq' = NextSeq("message")
                     /\ response' = Resp("Redirect", "Message sent!")
                ELSE /\ msgs' = MarkRead(conversation, user)
                     /\ response' = Resp("OK", "")
                     /\ UNCHANGED seq
    /\ UNCHANGED <<products, carts, conversations, ratings, productviews>>


(***************************************************************************)
(* Product detail, view tracking and the read-only product queries.        *)
(***************************************************************************)
\* mutant of TracksView: the is_authenticated test dropped
TracksView_anyone(user, product) == user # product.seller

\* request.user.is_authenticated and request.user != product.seller
TracksView(user, product) == user # Anonymous /\ user # product.seller

\* Product.increment_views: views_count += 1; save(update_fields=['views_count'])
increment_views(product) == [product EXCEPT !.views_count = @ + 1]

product_detail(user, pk, method) ==
    /\ Serve("product_detail", user, pk, method)
    /\ IF ProductByPk(pk) = {}
       THEN /\ response' = Resp("NotFound", "")
            /\ UNCHANGED <<products, productviews, seq>>
       ELSE LET product == CHOOSE p \in ProductByPk(pk) : TRUE
            IN  /\ response' = Resp("OK", "")
                /\ IF TracksView(user, product)
                   THEN /\ products' = (products \ {product}) \cup {increment_views(product)}
                        /\ productviews' = productviews \cup
                              {[pk |-> seq["productview"], user |-> user, product |-> pk]}
                        /\ seq' = NextSeq("productview")
                   ELSE UNCHANGED <<products, productviews, seq>>
    /\ UNCHANGED <<carts, conversations, msgs, ratings>>

\* order_by(...): whether row a comes before row b.  Rows that tie on the
\* ordering columns are returned in primary-key order.
Before(ordering, a, b) ==
    CASE ordering = "price" -> a.price < b.price \/ (a.price = b.price /\ a.pk < b.pk)
      [] ordering = "-price" -> a.price > b.price \/ (a.price = b.price /\ a.pk < b.pk)
      [] ordering = "-views_count" ->
            a.views_count > b.views_count \/ (a.views_count = b.views_count /\ a.pk < b.pk)
      [] ordering = "-views_count,-created_at" ->
            a.views_count > b.views_count \/ (a.views_count = b.views_count /\ a.pk > b.pk)
      [] OTHER -> a.pk > b.pk     \* "-created_at", also Product.Meta.ordering

\* the rows of a queryset in its order
RECURSIVE OrderBy(_, _)
OrderBy(rows, ordering) ==
    IF rows = {} THEN <<>>
    ELSE LET first == CHOOSE a \in rows : \A b \in rows \ {a} : Before(ordering, a, b)
         IN  <<first>> \o OrderBy(rows \ {first}, ordering)

\* queryset[:n]
Slice(rows, n) == SubSeq(rows, 1, IF Len(rows) < n THEN Len(rows) ELSE n)

\* Product.objects.filter(is_available=True).select_related('seller')[:12]
home == Slice(OrderBy({p \in products : p.is_available}, "-created_at"), PageSize)

\* mutant of ListFiltered: the is_available=True base filter lost
ListFiltered_all(query, category, condition) ==
    {p \in products :
        /\ query # <<>> => IContains(p.name, query) \/ IContains(p.description, query)
        /\ category # "" => p.category = category
        /\ condition # "" => p.condition = condition}

\* product_list: the available products that pass the search and the filters
ListFiltered(query, category, condition) ==
    {p \in products :
        /\ p.is_available
        /\ query # <<>> => IContains(p.name, query) \/ IContains(p.description, query)
        /\ category # "" => p.category = category
        /\ condition # "" => p.condition = condition}

\* product_list: the sort key chosen by ?sort=
ListOrdering(sort) ==
    CASE sort = "price_low" -> "price"
      [] sort = "price_high" -> "-price"
      [] sort = "popular" -> "-views_count"
      [] OTHER -> "-created_at"

\* Paginator.num_pages: ceil(count / per_page), an empty list has one page
NumPages(count) == IF count = 0 THEN 1 ELSE (count + PageSize - 1) \div PageSize

\* Paginator.get_page(number): not an integer gives page 1, out of range the
\* last page
PageNumber(field, count) ==
    IF field.kind # "numeral" THEN 1
    ELSE IF field.value < 1 \/ field.value > NumPages(count) THEN NumPages(count)
    ELSE field.value

GetPage(rows, field) ==
    LET number == PageNumber(field, Len(rows))
        bottom == (number - 1) * PageSize
        top == IF bottom + PageSize > Len(rows) THEN Len(rows) ELSE bottom + PageSize
    IN  SubSeq(rows, bottom + 1, top)

\* product_list: page_obj
product_list(query, category, condition, sort, page) ==
    GetPage(OrderBy(ListFiltered(query, category, condition), ListOrdering(sort)), page)

\* product_detail: similar_products
similar_products(pk) ==
    LET product == CHOOSE p \in ProductByPk(pk) : TRUE
    IN  Slice(OrderBy({p \in products : /\ p.category = product.category
                                         /\ p.is_available
                                         /\ p.pk # pk}, "-created_at"), SimilarSize)

\* mutant of interested_categories: the cart categories left out
interested_categories_viewed(user) ==
    {p.category : p \in {p \in products :
        \E v \in productviews : v.user = user /\ v.product = p.pk}}

\* recommendations: categories of the products the user viewed or has in cart
interested_categories(user) ==
    {p.category : p \in {p \in products :
        \/ \E v \in productviews : v.user = user /\ v.product = p.pk
        \/ \E c \in carts : c.buyer = user /\ c.product = p.pk}}

recommendations(user) ==
    IF interested_categories(user) # {}
    THEN Slice(OrderBy({p \in products : /\ p.category \in interested_categories(user)
                                          /\ p.is_available
                                          /\ p.seller # user},
                       "-views_count,-created_at"), PageSize)
    ELSE Slice(OrderBy({p \in products : p.is_available /\ p.seller # user},
                       "-views_count"), PageSize)

\* the recommendations handler: @login_required, then the page with
\* recommended_products in its context; it writes nothing
recommendations_request(user, method) ==
    /\ requests < MaxRequests
    /\ requests' = requests + 1
    /\ request' = Req("recommendations", user, None, method)
    /\ UNCHANGED workers
    /\ response' =
            IF user = Anonymous THEN LoginRedirect
            ELSE [status |-> "OK", message |-> "",
                  recommended_products |-> recommendations(user)]
    /\ UNCHANGED <<products, carts, conversations, msgs, ratings, productviews, seq>>


(***************************************************************************)
(* Ratings.                                                                *)
(***************************************************************************)
\* Rating.review max_length
ReviewMaxLength == 500

\* RatingForm.is_valid(): rating is required, an integer in 1..5; review is
\* optional, at most 500 characters after the field's strip
RatingFormValid(form) ==
    /\ form.rating.kind = "numeral"
    /\ form.rating.value >= MinRating
    /\ form.rating.value <= MaxRating
    /\ Len(Strip(form.review)) <= ReviewMaxLength

\* mutant of ExistingRating: product=None compared with "=", which matches no
\* row, instead of IS NULL
ExistingRating_nullmiss(seller, buyer, product) ==
    {r \in ratings : /\ r.seller = seller /\ r.buyer = buyer
                     /\ product # None /\ r.product = product}

\* Rating.objects.filter(seller=, buyer=, product=); product=None is IS NULL
ExistingRating(seller, buyer, product) ==
    {r \in ratings : r.seller = seller /\ r.buyer = buyer /\ r.product = product}

\* .first() under Meta.ordering = ['-created_at']
FirstRating(rows) == CHOOSE r \in rows : \A o \in rows : o.pk <= r.pk

\* Profile.average_rating over a Rating table: None without ratings, else
\* Avg('rating') as the exact fraction sum / count
RECURSIVE SumOfRatings(_)
SumOfRatings(rows) ==
    IF rows = {} THEN 0
    ELSE LET r == CHOOSE x \in rows : TRUE IN r.rating + SumOfRatings(rows \ {r})

average_rating(table, user) ==
    LET received == {r \in table : r.seller = user}
    IN  IF received = {} THEN [sum |-> 0, count |-> 0]
        ELSE [sum |-> SumOfRatings(received), count |-> Cardinality(received)]

\* Profile.total_ratings
total_ratings(table, user) == Cardinality({r \in table : r.seller = user})

rate_seller(user, username, method, product_pk, form) ==
    /\ requests < MaxRequests
    /\ requests' = requests + 1
    /\ request' = [view |-> "rate_seller", user |-> user, pk |-> product_pk,
                   method |-> method, username |-> username]
    /\ UNCHANGED workers
    /\ IF user = Anonymous
       THEN /\ response' = LoginRedirect
            /\ UNCHANGED <<ratings, seq>>
       ELSE IF username \notin Users
       THEN /\ response' = Resp("NotFound", "")
            /\ UNCHANGED <<ratings, seq>>
       ELSE IF username = user
       THEN /\ response' = Resp("Redirect", "You cannot rate yourself")
            /\ UNCHANGED <<ratings, seq>>
       ELSE IF product_pk # None /\ ProductByPk(product_pk) = {}
       THEN /\ response' = Resp("NotFound", "")
            /\ UNCHANGED <<ratings, seq>>
       ELSE LET existing == ExistingRating(username, user, product_pk)
            IN  IF method = "POST" /\ RatingFormValid(form)
                THEN /\ response' = Resp("Redirect", "Rating submitted successfully!")
                     /\ IF existing = {}
                        THEN /\ ratings' = ratings \cup
                                   {[pk |-> seq["rating"], seller |-> username, buyer |-> user,
                                     product |-> product_pk, rating |-> form.rating.value,
                                     review |-> Strip(form.review)]}
                             /\ seq' = NextSeq("rating")
                        ELSE /\ ratings' = (ratings \ {FirstRating(existing)}) \cup
                                   {[FirstRating(existing) EXCEPT
                                        !.rating = form.rating.value,
                                        !.review = Strip(form.review)]}
                             /\ UNCHANGED seq
                ELSE /\ response' = Resp("OK", "")
                     /\ UNCHANGED <<ratings, seq>>
    /\ UNCHANGED <<products, carts, conversations, msgs, productviews>>


(***************************************************************************)
(* Requests in flight.  Two workers serve requests at the same time; each  *)
(* statement of a handler that reads or writes the store is one step, and  *)
(* the steps of the two workers interleave freely.                         *)
(***************************************************************************)
\* a request arrives at a free worker
Arrive(w, view, user, pk, method) ==
    /\ workers[w].pc \in {"idle", "done"}
    /\ requests < MaxRequests
    /\ requests' = requests + 1
    /\ request' = Req(view, user, pk, method)

InFlight(view, user, pk) == [Idle EXCEPT !.view = view, !.user = user, !.pk = pk]

\* the worker returns its response
Return(w, status, message) ==
    /\ workers' = [workers EXCEPT ![w].pc = "done", ![w].status = status]
    /\ response' = Resp(status, message)

\* the worker returns on arrival, before any query of its own
Reject(w, view, user, pk, status, message) ==
    /\ workers' = [workers EXCEPT ![w] = [InFlight(view, user, pk) EXCEPT
                                            !.pc = "done", !.status = status]]
    /\ response' = Resp(status, message)

\* Model.save() of a loaded instance: UPDATE the row with its pk, INSERT when
\* the UPDATE matched no row
SaveRow(table, row) == {r \in table : r.pk # row.pk} \cup {row}

\* cart_add up to get_or_create: decorators, get_object_or_404 and the
\* own-product refusal
cart_add_arrive(w, user, pk, method) ==
    /\ Arrive(w, "cart_add", user, pk, method)
    /\ IF user = Anonymous
       THEN Reject(w, "cart_add", user, pk, "LoginRedirect", "")
       ELSE IF method # "POST"
       THEN Reject(w, "cart_add", user, pk, "MethodNotAllowed", "")
       ELSE IF ProductByPk(pk) = {}
       THEN Reject(w, "cart_add", user, pk, "NotFound", "")
       ELSE IF \E p \in ProductByPk(pk) : p.seller = user
       THEN Reject(w, "cart_add", user, pk, "BadRequest",
                   "Cannot add your own product to cart")
       ELSE /\ workers' = [workers EXCEPT ![w] = [InFlight("cart_add", user, pk) EXCEPT
                                                    !.pc = "get",
                                                    !.fresh = (CartOf(user, pk) = {})]]
            /\ UNCHANGED response
    /\ UNCHANGED <<products, carts, conversations, msgs, ratings, productviews, seq>>

\* get_or_create: self.get(buyer=, product=)
cart_add_get(w) ==
    /\ workers[w].pc = "get"
    /\ workers' = [workers EXCEPT
                      ![w].pc = IF CartOf(workers[w].user, workers[w].pk) = {}
                                THEN "create" ELSE "increment",
                      ![w].loaded = CartOf(workers[w].user, workers[w].pk)]
    /\ UNCHANGED <<products, carts, conversations, msgs, ratings, productviews, seq,
                   request, response, requests>>

\* mutant of cart_add_create: the IntegrityError of the INSERT is not caught
cart_add_create_raise(w) ==
    /\ workers[w].pc = "create"
    /\ IF CartOf(workers[w].user, workers[w].pk) = {}
       THEN /\ carts' = carts \cup {[pk |-> seq["cart"], buyer |-> workers[w].user,
                                     product |-> workers[w].pk, quantity |-> 1]}
            /\ seq' = NextSeq("cart")
            /\ workers' = [workers EXCEPT ![w].pc = "done", ![w].status = "OK",
                                          ![w].created = TRUE]
            /\ response' = Resp("OK", "Product added to cart")
       ELSE /\ Return(w, "ServerError", "IntegrityError")
            /\ UNCHANGED <<carts, seq>>
    /\ UNCHANGED <<products, conversations, msgs, ratings, productviews, request, requests>>

\* get_or_create after the get missed: self.create(buyer=, product=, quantity=1)
\* under unique_together (buyer, product).  The INSERT succeeds and the request
\* returns (created is True), or it violates the constraint and get_or_create
\* catches the IntegrityError to get the row again.
cart_add_create(w) ==
    /\ workers[w].pc = "create"
    /\ IF CartOf(workers[w].user, workers[w].pk) = {}
       THEN /\ carts' = carts \cup {[pk |-> seq["cart"], buyer |-> workers[w].user,
                                     product |-> workers[w].pk, quantity |-> 1]}
            /\ seq' = NextSeq("cart")
            /\ workers' = [workers EXCEPT ![w].pc = "done", ![w].status = "OK",
                                          ![w].created = TRUE]
            /\ response' = Resp("OK", "Product added to cart")
       ELSE /\ workers' = [workers EXCEPT ![w].pc = "get_again", ![w].retried = TRUE]
            /\ UNCHANGED <<carts, seq, response>>
    /\ UNCHANGED <<products, conversations, msgs, ratings, productviews, request, requests>>

\* get_or_create after the IntegrityError: self.get(...) once more; the error
\* is raised again when the row is gone
cart_add_get_again(w) ==
    /\ workers[w].pc = "get_again"
    /\ IF CartOf(workers[w].user, workers[w].pk) # {}
       THEN /\ workers' = [workers EXCEPT
                             ![w].pc = "increment",
                             ![w].loaded = CartOf(workers[w].user, workers[w].pk)]
            /\ UNCHANGED response
       ELSE Return(w, "ServerError", "IntegrityError")
    /\ UNCHANGED <<products, carts, conversations, msgs, ratings, productviews, seq,
                   request, requests>>

\* `if not created: cart_item.quantity += 1; cart_item.save()` on the instance
\* the get returned, then the response
cart_add_increment(w) ==
    /\ workers[w].pc = "increment"
    /\ LET cart_item == CHOOSE c \in workers[w].loaded : TRUE
       IN  carts' = SaveRow(carts, [cart_item EXCEPT !.quantity = @ + 1])
    /\ Return(w, "OK", "Product added to cart")
    /\ UNCHANGED <<products, conversations, msgs, ratings, productviews, seq,
                   request, requests>>

\* product_detail: get_object_or_404(Product, pk=pk) and the test of "Track view"
product_detail_load(w, user, pk) ==
    /\ Arrive(w, "product_detail", user, pk, "GET")
    /\ IF ProductByPk(pk) = {}
       THEN Reject(w, "product_detail", user, pk, "NotFound", "")
       ELSE IF \E p \in ProductByPk(pk) : TracksView(user, p)
       THEN /\ workers' = [workers EXCEPT ![w] = [InFlight("product_detail", user, pk) EXCEPT
                                                    !.pc = "increment_views",
                                                    !.loaded = ProductByPk(pk)]]
            /\ UNCHANGED response
       ELSE Reject(w, "product_detail", user, pk, "OK", "")
    /\ UNCHANGED <<products, carts, conversations, msgs, ratings, productviews, seq>>

\* Product.increment_views on the loaded instance: self.views_count += 1, then
\* save(update_fields=['views_count']) writes that column of the row
product_detail_increment_views(w) ==
    /\ workers[w].pc = "increment_views"
    /\ LET product == CHOOSE p \in workers[w].loaded : TRUE
       IN  products' = {IF p.pk = product.pk
                        THEN [p EXCEPT !.views_count = increment_views(product).views_count]
                        ELSE p : p \in products}
    /\ workers' = [workers EXCEPT ![w].pc = "log_view"]
    /\ UNCHANGED <<carts, conversations, msgs, ratings, productviews, seq,
                   request, response, requests>>

\* ProductView.objects.create(user=, product=), then the queries of the page
\* and the response
product_detail_log_view(w) ==
    /\ workers[w].pc = "log_view"
    /\ productviews' = productviews \cup
          {[pk |-> seq["productview"], user |-> workers[w].user, product |-> workers[w].pk]}
    /\ seq' = NextSeq("productview")
    /\ Return(w, "OK", "")
    /\ UNCHANGED <<products, carts, conversations, msgs, ratings, request, requests>>

\* product_edit: get_object_or_404(Product, pk=pk, seller=request.user), and for
\* a POST the form bound to the loaded instance and validated
product_edit_load(w, user, pk, method, form) ==
    /\ Arrive(w, "product_edit", user, pk, method)
    /\ IF user = Anonymous
       THEN Reject(w, "product_edit", user, pk, "LoginRedirect", "")
       ELSE IF OwnedProduct(user, pk) = {}
       THEN Reject(w, "product_edit", user, pk, "NotFound", "")
       ELSE IF method = "POST" /\ ProductFormValid(form)
       THEN /\ workers' = [workers EXCEPT ![w] = [InFlight("product_edit", user, pk) EXCEPT
                                                    !.pc = "form_save",
                                                    !.loaded = OwnedProduct(user, pk),
                                                    !.form = {form}]]
            /\ UNCHANGED response
       ELSE Reject(w, "product_edit", user, pk, "OK", "")
    /\ UNCHANGED <<products, carts, conversations, msgs, ratings, productviews, seq>>

\* form.save(): the form's fields are set on the loaded instance and
\* Model.save() writes every column of the row, views_count as loaded
product_edit_form_save(w) ==
    /\ workers[w].pc = "form_save"
    /\ LET product == CHOOSE p \in workers[w].loaded : TRUE
           form == CHOOSE f \in workers[w].form : TRUE
       IN  products' = SaveRow(products, ProductFormSave(product, form))
    /\ Return(w, "Redirect", "Product updated successfully!")
    /\ UNCHANGED <<carts, conversations, msgs, ratings, productviews, seq, request, requests>>

(***************************************************************************)
(* Request inputs.                                                         *)
(***************************************************************************)
FormLamp ==
    [name |-> <<"L", "a", "m", "p">>, description |-> <<"o", "l", "d">>, price |-> 1000,
     category |-> "electronics", condition |-> "good", is_available |-> TRUE]
FormBook ==
    [name |-> <<"B", "o", "o", "k">>, description |-> <<"l", "a", "b">>, price |-> 500,
     category |-> "books", condition |-> "new", is_available |-> TRUE]
FormHidden ==
    [name |-> <<"L", "a", "b">>, description |-> <<"o", "l", "d">>, price |-> 1000,
     category |-> "electronics", condition |-> "good", is_available |-> FALSE]
\* rejected by MinValueValidator(0) on price
FormBad == [FormLamp EXCEPT !.price = -1]

\* the largest quantity a cart_update request posts
MaxQuantity == 3
QuantityFields ==
    {IntAbsent, IntText} \cup {IntNumeral(n) : n \in (-1)..MaxQuantity}

\* posted message bodies: absent, empty, blank, and two texts with surrounding
\* whitespace
MessageFields ==
    {FieldAbsent, Field(<<>>), Field(<<" ", "\n">>), Field(<<"o", "k">>),
     Field(<<" ", "o", "k", "\n">>), Field(<<"b", "a", "d">>)}

\* ?q=, ?category=, ?condition=, ?sort= and ?page= of product_list; "" is an
\* absent or empty parameter
Queries == {<<>>, <<"L", "A">>}
CategoryParams == {"", "electronics"}
ConditionParams == {"", "good"}
SortParams == {"price_low", "price_high", "popular", "newest"}
PageFields == {IntAbsent, IntNumeral(0), IntNumeral(1), IntNumeral(2)}

\* posted rating forms: two valid ones, a rating below and one above the
\* range, and a form without the rating field
RatingForms ==
    {[rating |-> IntNumeral(1), review |-> <<>>],
     [rating |-> IntNumeral(5), review |-> <<" ", "o", "k">>],
     [rating |-> IntNumeral(0), review |-> <<>>],
     [rating |-> IntNumeral(6), review |-> <<"o", "k">>],
     [rating |-> IntAbsent, review |-> <<>>]}
\* usernames of the rate_seller URL: the users and a name nobody has
Usernames == Users \cup {"nobody"}

(***************************************************************************)
(* The cart subsystem: listings are created, edited and deleted by their   *)
(* sellers while buyers add, update and remove cart rows.                  *)
(***************************************************************************)
NextCart ==
    \/ \E u \in Requesters, m \in Methods, f \in {FormLamp, FormBad} : product_create(u, m, f)
    \/ \E u \in Requesters, pk \in PksOf("product"), m \in Methods, f \in {FormHidden, FormBad} :
            product_edit(u, pk, m, f)
    \/ \E u \in Requesters, pk \in PksOf("product"), m \in Methods : product_delete(u, pk, m)
    \/ \E u \in Requesters, pk \in PksOf("product"), m \in Methods : cart_add(u, pk, m)
    \/ \E u \in Requesters, pk \in PksOf("cart"), m \in Methods : cart_remove(u, pk, m)
    \/ \E u \in Requesters, pk \in PksOf("cart"), m \in Methods, q \in QuantityFields :
            cart_update(u, pk, m, q)

SpecCart == Init /\ [][NextCart]_vars

(***************************************************************************)
(* The messaging subsystem: listings come and go while users start         *)
(* conversations about them, post into them and open them.                 *)
(***************************************************************************)
NextConv ==
    \/ \E u \in Requesters : product_create(u, "POST", FormLamp)
    \/ \E u \in Requesters, pk \in PksOf("product") : product_delete(u, pk, "POST")
    \/ \E u \in Requesters, pk \in PksOf("product"), m \in Methods, f \in MessageFields :
            start_conversation(u, pk, m, f)
    \/ \E u \in Requesters, pk \in PksOf("conversation"), m \in Methods, f \in MessageFields :
            conversation_detail(u, pk, m, f)

SpecConv == Init /\ [][NextConv]_vars

(***************************************************************************)
(* The catalogue: sellers list and edit products, visitors open product    *)
(* pages and buyers fill carts, which feeds the recommendations.           *)
(***************************************************************************)
NextCatalog ==
    \/ \E u \in {"alice", "carol"}, f \in {FormLamp, FormBook, FormHidden} :
            product_create(u, "POST", f)
    \/ \E u \in {"alice", "carol"}, pk \in PksOf("product") :
            product_edit(u, pk, "POST", FormHidden)
    \/ \E u \in Requesters, pk \in PksOf("product") : product_detail(u, pk, "GET")
    \/ \E pk \in PksOf("product") : cart_add("carol", pk, "POST")

SpecCatalog == Init /\ [][NextCatalog]_vars

(***************************************************************************)
(* Ratings: buyers rate sellers, for a listing or without one, while       *)
(* listings come and go.                                                   *)
(***************************************************************************)
NextRating ==
    \/ \E f \in {FormLamp} : product_create("alice", "POST", f)
    \/ \E pk \in PksOf("product") : product_delete("alice", pk, "POST")
    \/ \E u \in {"bob", "carol", Anonymous}, name \in {"alice", "bob", "nobody"}, m \in Methods,
          pk \in {None} \cup PksOf("product"), f \in RatingForms :
            rate_seller(u, name, m, pk, f)

SpecRating == Init /\ [][NextRating]_vars

(***************************************************************************)
(* Dealing with oneself: users list products and then try to put them in   *)
(* a cart, to write about them and to rate a seller, their own included.   *)
(***************************************************************************)
NextSelf ==
    \/ \E u \in {"alice", "bob"} : product_create(u, "POST", FormLamp)
    \/ \E u \in {"alice", "bob"}, pk \in PksOf("product"), m \in Methods : cart_add(u, pk, m)
    \/ \E u \in {"alice", "bob"}, pk \in PksOf("product"), m \in Methods,
          f \in {Field(<<>>), Field(<<"o", "k">>)} :
            start_conversation(u, pk, m, f)
    \/ \E u \in {"alice", "bob"}, name \in {"alice", "bob"}, m \in Methods,
          pk \in {None} \cup PksOf("product"),
          f \in {[rating |-> IntNumeral(5), review |-> <<>>]} :
            rate_seller(u, name, m, pk, f)

SpecSelf == Init /\ [][NextSelf]_vars

(***************************************************************************)
(* Recommendations over a full catalogue.  The catalogue was listed        *)
(* earlier: carol sells nearly everything, alice and bob one product each, *)
(* one product is a book, one is no longer available, nothing has been     *)
(* viewed yet.  alice and bob then open pages, bob fills his cart, carol   *)
(* hides a product, and users ask for their recommendations.               *)
(***************************************************************************)
\* the largest catalogue: more products than one page of recommendations
MaxCatalog == 16

CatalogProduct(pk) ==
    [pk |-> pk,
     seller |-> IF pk = 3 THEN "bob" ELSE IF pk = 7 THEN "alice" ELSE "carol",
     name |-> <<"L", "a", "m", "p">>, description |-> <<"o", "l", "d">>, price |-> 1000,
     category |-> IF pk = 4 THEN "books" ELSE "electronics", condition |-> "good",
     is_available |-> pk # 6, views_count |-> 0]

Catalog(n) == {CatalogProduct(pk) : pk \in 1..n}

CatalogSizes == {0, MaxCatalog - 1, MaxCatalog}

InitCatalog ==
    /\ \E n \in CatalogSizes :
          /\ products = Catalog(n)
          /\ seq = [t \in Tables |-> IF t = "product" THEN n + 1 ELSE 1]
    /\ carts = {}
    /\ conversations = {}
    /\ msgs = {}
    /\ ratings = {}
    /\ productviews = {}
    /\ request = Req("none", Anonymous, None, "GET")
    /\ response = Resp("none", "")
    /\ requests = 0
    /\ workers = [w \in Workers |-> Idle]

NextRecs ==
    \/ \E u \in {"alice", "bob"}, pk \in {1, 4, 13} \cap PksOf("product") :
            product_detail(u, pk, "GET")
    \/ \E pk \in {4, 5} \cap PksOf("product") : cart_add("bob", pk, "POST")
    \/ \E pk \in {13} \cap PksOf("product") : product_edit("carol", pk, "POST", FormHidden)
    \/ \E u \in Requesters : recommendations_request(u, "GET")

SpecRecs == InitCatalog /\ [][NextRecs]_vars

(***************************************************************************)
(* Buyers adding to their carts at the same time: alice lists products,    *)
(* and the two workers serve bob's and carol's cart_add requests           *)
(* statement by statement.                                                 *)
(***************************************************************************)
NextRace ==
    \/ product_create("alice", "POST", FormLamp)
    \/ \E w \in Workers, u \in {"alice", "bob", "carol"}, pk \in PksOf("product"), m \in Methods :
            cart_add_arrive(w, u, pk, m)
    \/ \E w \in Workers : cart_add_get(w)
    \/ \E w \in Workers : cart_add_create(w)
    \/ \E w \in Workers : cart_add_get_again(w)
    \/ \E w \in Workers : cart_add_increment(w)

SpecRace == Init /\ [][NextRace]_vars

(***************************************************************************)
(* Product pages opened while the listing is edited: alice lists a         *)
(* product, visitors open its page and alice edits it, the two workers     *)
(* running the handlers statement by statement.                            *)
(***************************************************************************)
NextViews ==
    \/ product_create("alice", "POST", FormLamp)
    \/ \E w \in Workers, u \in {"alice", "bob", Anonymous}, pk \in PksOf("product") :
            product_detail_load(w, u, pk)
    \/ \E w \in Workers : product_detail_increment_views(w)
    \/ \E w \in Workers : product_detail_log_view(w)
    \/ \E w \in Workers, u \in {"alice", "bob"}, pk \in PksOf("product"), m \in Methods,
          f \in {FormBook, FormBad} :
            product_edit_load(w, u, pk, m, f)
    \/ \E w \in Workers : product_edit_form_save(w)

SpecViews == Init /\ [][NextViews]_vars

(***************************************************************************)
(* Messages among the other operations: alice lists, edits and deletes     *)
(* products; bob and carol write to her about them, bob fills his cart and  *)
(* rates her; alice, bob and carol open conversations and post into them.   *)
(***************************************************************************)
NextMessages ==
    \/ product_create("alice", "POST", FormLamp)
    \/ \E pk \in PksOf("product") : product_edit("alice", pk, "POST", FormHidden)
    \/ \E u \in {"alice", "bob"}, pk \in PksOf("product") : product_delete(u, pk, "POST")
    \/ \E u \in {"bob", "carol"}, pk \in PksOf("product"),
          f \in {Field(<<"o", "k">>), Field(<<" ", "\n">>)} :
            start_conversation(u, pk, "POST", f)
    \/ \E u \in Users, pk \in PksOf("conversation"), m \in Methods,
          f \in {Field(<<"o", "k">>), Field(<<>>)} :
            conversation_detail(u, pk, m, f)
    \/ \E pk \in PksOf("product") : cart_add("bob", pk, "POST")
    \/ \E pk \in PksOf("cart") : cart_update("bob", pk, "POST", IntNumeral(0))
    \/ \E pk \in PksOf("cart") : cart_remove("bob", pk, "POST")
    \/ rate_seller("bob", "alice", "POST", None, [rating |-> IntNumeral(5), review |-> <<>>])

SpecMessages == Init /\ [][NextMessages]_vars

(***************************************************************************)
(* The whole application: any handler may serve the next request.          *)
(***************************************************************************)
Next == NextCart \/ NextConv \/ NextCatalog \/ NextRating \/ NextSelf \/ NextRecs \/ NextRace \/ NextViews
          \/ NextMessages

Spec == Init /\ [][Next]_vars

(***************************************************************************)
(* Claims about the cart.                                                  *)
(***************************************************************************)
\* the rows of a Cart table for one (buyer, product) pair
PairRows(table, buyer, product) == {c \in table : c.buyer = buyer /\ c.product = product}

\* the tables a request can write
db == <<products, carts, conversations, msgs, ratings, productviews>>

\* the step serves a POST to `view` by a logged-in user
Posted(view) ==
    /\ request'.view = view
    /\ request'.method = "POST"
    /\ request'.user \in Users

\* C1: cart_add is an upsert keyed on (buyer, product).  Every cart_add by a
\* buyer B who is not the seller of product P leaves exactly one row for
\* (B, P): with quantity 1 when there was none, and otherwise the same row with
\* its quantity raised by one, so n successive adds starting without a row give
\* quantity n; no other row changes; and in every state there is at most one
\* row per pair.
C1_CartAddUpsert ==
    /\ [](\A c1 \in carts, c2 \in carts :
              c1.buyer = c2.buyer /\ c1.product = c2.product => c1 = c2)
    /\ [][/\ Posted("cart_add")
          /\ \E p \in products : p.pk = request'.pk /\ p.seller # request'.user
          => LET before == PairRows(carts, request'.user, request'.pk)
                 after == PairRows(carts', request'.user, request'.pk)
             IN  /\ Cardinality(after) = 1
                 /\ before = {} => \A c \in after : c.quantity = 1
                 /\ \A old \in before :
                        \A c \in after : c.pk = old.pk /\ c.quantity = old.quantity + 1
                 /\ carts' \ after = carts \ before]_vars

\* C1 witness: a second cart_add for the same pair was served and the pair's
\* row holds quantity 2
C1_Witness ==
    /\ request.view = "cart_add"
    /\ response = Resp("OK", "Product added to cart")
    /\ \E c \in PairRows(carts, request.user, request.pk) : c.quantity = 2

\* C2: cart_update by the owning buyer with requested quantity q deletes the
\* row when q <= 0 and otherwise sets the same row's quantity to q, creating
\* and removing nothing; every Cart row always has quantity >= 1.
C2_CartUpdate ==
    /\ [](\A c \in carts : c.quantity >= 1)
    /\ [][/\ Posted("cart_update")
          /\ \E c \in carts : c.pk = request'.pk /\ c.buyer = request'.user
          => \A q \in (-1)..MaxQuantity :
                cart_update(request'.user, request'.pk, "POST", IntNumeral(q)) =>
                    /\ q <= 0 => carts' = {c \in carts : c.pk # request'.pk}
                    /\ q > 0 =>
                         /\ {c.pk : c \in carts'} = {c.pk : c \in carts}
                         /\ Cardinality(carts') = Cardinality(carts)
                         /\ \A c \in carts' :
                               IF c.pk = request'.pk
                               THEN /\ c.quantity = q
                                    /\ \E old \in carts :
                                          /\ old.pk = c.pk
                                          /\ old.buyer = c.buyer
                                          /\ old.product = c.product
                               ELSE c \in carts]_vars

\* C2 witness: the owner's update to the largest posted quantity was applied
C2_Witness ==
    /\ request.view = "cart_update"
    /\ response = Resp("Redirect", "Cart updated")
    /\ \E c \in carts :
          c.pk = request.pk /\ c.buyer = request.user /\ c.quantity = MaxQuantity

\* C2, second case: the owner's update to a quantity <= 0 removed the row
C2_WitnessDeleted ==
    /\ request.view = "cart_update"
    /\ response = Resp("Redirect", "Item removed from cart")
    /\ request.pk < seq["cart"]
    /\ \A c \in carts : c.pk # request.pk

\* C9: an ownership-scoped mutation of somebody else's row fails like one of a
\* row that does not exist.  cart_update and cart_remove on a Cart row whose
\* buyer is not the requester, and product_edit and product_delete on a Product
\* whose seller is not the requester, answer NotFound, exactly as for a primary
\* key no row has, and leave every table as it was.
C9_OwnershipNotFound ==
    [][/\ /\ Posted("cart_update") \/ Posted("cart_remove")
          /\ \A c \in carts : c.pk = request'.pk => c.buyer # request'.user
          => response' = Resp("NotFound", "") /\ UNCHANGED db
       /\ /\ request'.view \in {"product_edit", "product_delete"}
          /\ request'.user \in Users
          /\ \A p \in products : p.pk = request'.pk => p.seller # request'.user
          => response' = Resp("NotFound", "") /\ UNCHANGED db
      ]_vars

\* C9 witness: a buyer's Cart row exists and another user's cart_update or
\* cart_remove for its primary key was answered NotFound
C9_Witness ==
    /\ request.view \in {"cart_update", "cart_remove"}
    /\ request.method = "POST"
    /\ request.user \in Users
    /\ \E c \in carts : c.pk = request.pk /\ c.buyer # request.user
    /\ response = Resp("NotFound", "")

\* C9, product side: a listing exists and another user's product_edit or
\* product_delete for it was answered NotFound
C9_WitnessProduct ==
    /\ request.view \in {"product_edit", "product_delete"}
    /\ request.user \in Users
    /\ \E p \in products : p.pk = request.pk /\ p.seller # request.user
    /\ response = Resp("NotFound", "")

(***************************************************************************)
(* Claims about conversations and messages.                                *)
(***************************************************************************)
\* the rows of a Conversation table for one (product, buyer, seller) triple
TripleRows(table, product, buyer, seller) ==
    {c \in table : c.product = product /\ c.buyer = buyer /\ c.seller = seller}

\* a posted body with a character that is not whitespace
NonBlank(field) == field.given /\ \E i \in 1..Len(field.text) : field.text[i] \notin Whitespace

\* C3: a Conversation is never duplicated.  In every state there is at most
\* one Conversation row per (product, buyer, seller) triple; a start_conversation
\* POST with a non-blank body by a user who is not the product's seller leaves
\* exactly one row for (product, requester, seller), the row that was there when
\* there was one, removes no conversation and no message, and appends exactly
\* one Message, to that row.
C3_ConversationUnique ==
    /\ [](\A c1 \in conversations, c2 \in conversations :
              c1.product = c2.product /\ c1.buyer = c2.buyer /\ c1.seller = c2.seller
                  => c1 = c2)
    /\ [][/\ Posted("start_conversation")
          /\ \E f \in MessageFields :
                NonBlank(f) /\ start_conversation(request'.user, request'.pk, "POST", f)
          => \A p \in products :
                p.pk = request'.pk /\ p.seller # request'.user =>
                    LET before == TripleRows(conversations, p.pk, request'.user, p.seller)
                        after == TripleRows(conversations', p.pk, request'.user, p.seller)
                    IN  /\ Cardinality(after) = 1
                        /\ before \subseteq after
                        /\ conversations' \ after = conversations \ before
                        /\ msgs \subseteq msgs'
                        /\ Cardinality(msgs' \ msgs) = 1
                        /\ \A m \in msgs' \ msgs : \E c \in after : m.conversation = c.pk]_vars

\* C3 witness: a start_conversation for a triple that already had its row was
\* served, and the one row now carries two messages
C3_Witness ==
    /\ request.view = "start_conversation"
    /\ response = Resp("Redirect", "Message sent successfully!")
    /\ \E c \in conversations :
          /\ c.product = request.pk /\ c.buyer = request.user
          /\ Cardinality({m \in msgs : m.conversation = c.pk}) = 2

\* C4: every Message runs between the two parties of its conversation.  Its
\* sender and receiver are the conversation's buyer and seller in one of the
\* two orders (so a message from the buyer goes to the seller and one from the
\* seller to the buyer, never to its own sender and never to or from an
\* outsider), and a message is created with the requester as its sender.
C4_MessageParties ==
    /\ [](\A m \in msgs :
              \E c \in conversations :
                  /\ c.pk = m.conversation
                  /\ \/ m.sender = c.buyer /\ m.receiver = c.seller
                     \/ m.sender = c.seller /\ m.receiver = c.buyer
                  /\ m.sender # m.receiver)
    /\ [][\A m \in msgs' : (\A old \in msgs : old.pk # m.pk) => m.sender = request'.user]_vars

\* C4 witness: the seller posted into a conversation the buyer started
C4_Witness ==
    /\ request.view = "conversation_detail"
    /\ response = Resp("Redirect", "Message sent!")
    /\ \E c \in conversations :
          /\ c.pk = request.pk /\ c.seller = request.user
          /\ \E m \in msgs : m.conversation = c.pk /\ m.sender = c.seller
          /\ \E m \in msgs : m.conversation = c.pk /\ m.sender = c.buyer

\* C5: opening a conversation marks exactly the opener's messages read.  When
\* conversation_detail is served to a participant U and creates no message,
\* afterwards every Message of that conversation with receiver U is read, and
\* every other Message (to the other party, or of another conversation) is as
\* it was; no Message is added, removed or otherwise changed.
C5_OpenMarksRead ==
    [][/\ request'.view = "conversation_detail"
       /\ \E c \in conversations :
              c.pk = request'.pk /\ request'.user \in {c.buyer, c.seller}
       /\ {m.pk : m \in msgs'} = {m.pk : m \in msgs}
       => /\ \A m \in msgs' :
                m.conversation = request'.pk /\ m.receiver = request'.user => m.read
          /\ \A m \in msgs :
                IF m.conversation = request'.pk /\ m.receiver = request'.user
                THEN [m EXCEPT !.read = TRUE] \in msgs'
                ELSE m \in msgs'
          /\ Cardinality(msgs') = Cardinality(msgs)]_vars

\* C5 witness: a participant opened a conversation holding a message to them,
\* now read, and a message to the other party, still unread
C5_Witness ==
    /\ request.view = "conversation_detail"
    /\ response = Resp("OK", "")
    /\ \E m \in msgs :
          m.conversation = request.pk /\ m.receiver = request.user /\ m.read
    /\ \E m \in msgs :
          m.conversation = request.pk /\ m.receiver # request.user /\ ~m.read

\* C10: conversation_detail, GET or POST, requested by a user who is neither
\* the buyer nor the seller of the conversation is answered Forbidden, creates
\* no Message and changes no Message (nor any other row).
C10_OutsiderForbidden ==
    [][/\ request'.view = "conversation_detail"
       /\ request'.user \in Users
       /\ \E c \in conversations :
              c.pk = request'.pk /\ request'.user \notin {c.buyer, c.seller}
       => /\ response'.status = "Forbidden"
          /\ msgs' = msgs
          /\ UNCHANGED db]_vars

\* C10 witness: a third user requested a conversation that holds a message
\* and was answered Forbidden
C10_Witness ==
    /\ request.view = "conversation_detail"
    /\ request.user \in Users
    /\ response.status = "Forbidden"
    /\ \E c \in conversations :
          /\ c.pk = request.pk /\ request.user \notin {c.buyer, c.seller}
          /\ \E m \in msgs : m.conversation = c.pk /\ ~m.read

(***************************************************************************)
(* Claims about the catalogue.                                             *)
(***************************************************************************)
\* the elements of a sequence
Range(rows) == {rows[i] : i \in DOMAIN rows}

\* the Product rows that are not available
Unavailable == {p \in products : ~p.is_available}

\* C6: view tracking of product_detail.  A view by an anonymous visitor or by
\* the product's seller changes no views_count and adds no ProductView row; a
\* view by any other logged-in user raises that product's views_count by
\* exactly 1, changes nothing else of it and no other product, and appends
\* exactly one ProductView row, for (viewer, product).
C6_ViewTracking ==
    [][request'.view = "product_detail" =>
          \A p \in products :
              p.pk = request'.pk =>
                  IF request'.user = Anonymous \/ request'.user = p.seller
                  THEN products' = products /\ productviews' = productviews
                  ELSE /\ products' = (products \ {p}) \cup
                                          {[p EXCEPT !.views_count = p.views_count + 1]}
                       /\ productviews \subseteq productviews'
                       /\ Cardinality(productviews' \ productviews) = 1
                       /\ \A v \in productviews' \ productviews :
                             v.user = request'.user /\ v.product = p.pk]_vars

\* C6 witness: a logged-in user who is not the seller viewed a product for the
\* second time while another product has never been counted
C6_Witness ==
    /\ request.view = "product_detail"
    /\ \E p \in products :
          /\ p.pk = request.pk
          /\ request.user \notin {Anonymous, p.seller}
          /\ p.views_count = 2
          /\ Cardinality({v \in productviews : v.product = p.pk}) = 2
    /\ \E p \in products : p.pk # request.pk /\ p.views_count = 0

\* C7: a product with is_available = false is in no result: not in home, not
\* in any page of product_list whatever the query, category, condition, sort
\* and page, not among the similar products of any product page, and not in
\* any user's recommendations.
C7_UnavailableHidden ==
    /\ Range(home) \cap Unavailable = {}
    /\ \A q \in Queries, cat \in CategoryParams, cond \in ConditionParams :
          LET filtered == ListFiltered(q, cat, cond)
          IN  \A sort \in SortParams :
                 LET ordered == OrderBy(filtered, ListOrdering(sort))
                 IN  \A page \in PageFields :
                        Range(GetPage(ordered, page)) \cap Unavailable = {}
    /\ \A p \in products : Range(similar_products(p.pk)) \cap Unavailable = {}
    /\ \A u \in Users : Range(recommendations(u)) \cap Unavailable = {}

\* C7 witness: an unavailable product shares its category with an available
\* one and matches the search, a user has that category in their history, and
\* the listing, the similar products and the recommendations are not empty
C7_Witness ==
    \E hidden \in Unavailable, shown \in products \ Unavailable :
        /\ hidden.category = shown.category
        /\ IContains(hidden.name, <<"L", "A">>) \/ IContains(hidden.description, <<"L", "A">>)
        /\ product_list(<<"L", "A">>, "electronics", "good", "popular", IntNumeral(2)) # <<>>
        /\ similar_products(hidden.pk) # <<>>
        /\ \E u \in Users :
              /\ hidden.category \in interested_categories(u)
              /\ hidden.seller # u
              /\ recommendations(u) # <<>>

(***************************************************************************)
(* Claims about ratings.                                                   *)
(***************************************************************************)
\* the rows of a Rating table for one (seller, buyer, product) triple; the
\* product may be None
RatingRows(table, seller, buyer, product) ==
    {r \in table : r.seller = seller /\ r.buyer = buyer /\ r.product = product}

\* C8: rate_seller is an upsert keyed on (seller, buyer, product), product
\* possibly absent.  In every state there is at most one Rating row per
\* triple.  A valid submission for a triple that has a Rating keeps the number
\* of Rating rows, keeps every other row, and overwrites that row's rating and
\* review with the submitted ones; after any valid submission of value v the
\* seller's average is the sum of v and of the ratings of the seller's other
\* triples over the number of the seller's triples, so only the latest value
\* of the triple counts.
C8_RatingUpsert ==
    /\ [](\A r1 \in ratings, r2 \in ratings :
              r1.seller = r2.seller /\ r1.buyer = r2.buyer /\ r1.product = r2.product
                  => r1 = r2)
    /\ [][Posted("rate_seller") =>
            \A f \in RatingForms :
                /\ f.rating.kind = "numeral"
                /\ f.rating.value \in MinRating..MaxRating
                /\ rate_seller(request'.user, request'.username, "POST", request'.pk, f)
                /\ request'.username \in Users \ {request'.user}
                /\ request'.pk = None \/ \E p \in products : p.pk = request'.pk
                => LET seller == request'.username
                       before == RatingRows(ratings, seller, request'.user, request'.pk)
                       after == RatingRows(ratings', seller, request'.user, request'.pk)
                       others == {r \in ratings : r.seller = seller} \ before
                   IN  /\ before # {} =>
                            /\ Cardinality(ratings') = Cardinality(ratings)
                            /\ {r.pk : r \in after} = {r.pk : r \in before}
                       /\ ratings' \ after = ratings \ before
                       /\ \A r \in after :
                             r.rating = f.rating.value /\ r.review = Strip(f.review)
                       /\ average_rating(ratings', seller) =
                             [sum |-> f.rating.value + SumOfRatings(others),
                              count |-> 1 + Cardinality(others)]]_vars

\* C8 witness: a second valid submission for a triple without a product was
\* served and changed the value of the triple's one row, while the seller has
\* a rating for another triple
C8_Witness ==
    /\ request.view = "rate_seller"
    /\ request.pk = None
    /\ response = Resp("Redirect", "Rating submitted successfully!")
    /\ \E r \in ratings :
          /\ r.seller = request.username /\ r.buyer = request.user /\ r.product = None
          /\ r.pk + 1 < seq["rating"]
          /\ r.rating = 5
    /\ average_rating(ratings, request.username).count = 2

(***************************************************************************)
(* Claims about dealing with oneself.                                      *)
(***************************************************************************)
\* C11: self-dealing is refused without any change of state.  A cart_add by
\* the product's seller, a start_conversation by the product's seller and a
\* rate_seller naming the requester leave every table as it was; and in every
\* reachable state no Cart row has its product's seller as buyer, no
\* Conversation and no Rating has buyer = seller.
C11_SelfDealingRefused ==
    /\ [](/\ \A c \in carts : \A p \in products : p.pk = c.product => c.buyer # p.seller
          /\ \A c \in conversations : c.buyer # c.seller
          /\ \A r \in ratings : r.buyer # r.seller)
    /\ [][/\ /\ request'.view \in {"cart_add", "start_conversation"}
             /\ \E p \in products : p.pk = request'.pk /\ p.seller = request'.user
             => db' = db /\ seq' = seq
          /\ /\ request'.view = "rate_seller"
             /\ request'.username = request'.user
             => db' = db /\ seq' = seq]_vars

\* C11 witness: a seller's POST to cart_add for an own product that another
\* user already holds in a cart was answered with the refusal
C11_Witness ==
    /\ request.view = "cart_add"
    /\ request.method = "POST"
    /\ \E p \in products : p.pk = request.pk /\ p.seller = request.user
    /\ \E c \in carts : c.product = request.pk
    /\ response = Resp("BadRequest", "Cannot add your own product to cart")

\* C11 witness: a seller's POST to start_conversation about an own product
C11_WitnessConversation ==
    /\ request.view = "start_conversation"
    /\ request.method = "POST"
    /\ \E p \in products : p.pk = request.pk /\ p.seller = request.user
    /\ response.message = "You cannot message yourself about your own product"

\* C11 witness: a user's POST of a valid rating for themselves, after having
\* received a rating from somebody else
C11_WitnessRating ==
    /\ request.view = "rate_seller"
    /\ request.method = "POST"
    /\ request.username = request.user
    /\ \E r \in ratings : r.seller = request.user
    /\ response.message = "You cannot rate yourself"

(***************************************************************************)
(* Claims about blank message bodies.                                      *)
(***************************************************************************)
\* a posted body that is empty or holds whitespace only
BlankBody(field) == field.given /\ \A i \in 1..Len(field.text) : field.text[i] \in Whitespace

\* the step serves a POST with a blank body to conversation_detail
BlankPost ==
    /\ request'.view = "conversation_detail"
    /\ request'.method = "POST"
    /\ \E f \in MessageFields :
        /\ BlankBody(f)
        /\ conversation_detail(request'.user, request'.pk, "POST", f)

\* the step serves a POST with a blank message to start_conversation
BlankStart ==
    /\ request'.view = "start_conversation"
    /\ request'.method = "POST"
    /\ \E f \in MessageFields :
        /\ BlankBody(f)
        /\ start_conversation(request'.user, request'.pk, "POST", f)

\* C12 as stated: a POST with a blank body to conversation_detail or to
\* start_conversation is a no-op, the Conversation rows and the Message rows
\* are identical before and after.
C12_BlankIsNoOp ==
    [][BlankPost \/ BlankStart => conversations' = conversations /\ msgs' = msgs]_vars

\* C12 amended: a POST with a blank body creates and deletes no Conversation
\* and no Message.  After a blank start_conversation both tables are
\* identical.  After a blank conversation_detail the Conversation rows are
\* identical and the Message rows are the same rows with the same conversation,
\* sender, receiver and content, where the messages of that conversation
\* addressed to the requester are now read and every other read flag is
\* unchanged.
C12_BlankCreatesNothing ==
    [][/\ BlankStart =>
             /\ conversations' = conversations
             /\ msgs' = msgs
             /\ seq' = seq
       /\ BlankPost =>
             /\ conversations' = conversations
             /\ seq' = seq
             /\ msgs' = {IF m.conversation = request'.pk /\ m.receiver = request'.user
                         THEN [m EXCEPT !.read = TRUE] ELSE m : m \in msgs}]_vars

\* C12 witness: the receiver of a message posted a body to the conversation
\* that created nothing (the page was rendered, not redirected), the message
\* is now read, and the conversation still holds exactly that one message
C12_Witness ==
    /\ request.view = "conversation_detail"
    /\ request.method = "POST"
    /\ response = Resp("OK", "")
    /\ \E m \in msgs :
          /\ m.conversation = request.pk
          /\ m.receiver = request.user
          /\ m.read
          /\ \A other \in msgs : other.conversation = request.pk => other = m

\* C12 witness: a POST to start_conversation by a user who is not the seller
\* was answered "Please write a message" while no conversation exists
C12_WitnessStart ==
    /\ request.view = "start_conversation"
    /\ request.method = "POST"
    /\ response = Resp("OK", "Please write a message")
    /\ \E p \in products : p.pk = request.pk /\ p.seller # request.user
    /\ conversations = {}
    /\ msgs = {}

(***************************************************************************)
(* Claims about recommendations.                                           *)
(***************************************************************************)
\* the categories of the products in a user's ProductView log or cart
HistoryCategories(user) ==
    {p.category : p \in {p \in products :
        \/ \E v \in productviews : v.user = user /\ v.product = p.pk
        \/ \E c \in carts : c.buyer = user /\ c.product = p.pk}}

\* the available products not sold by the user, within the categories of the
\* user's history when there is one
Recommendable(user) ==
    {p \in products :
        /\ p.is_available
        /\ p.seller # user
        /\ HistoryCategories(user) # {} => p.category \in HistoryCategories(user)}

\* C13: the recommendations for user U are at most 12 products, each
\* available and not sold by U.  When the categories C of U's viewed and
\* carted products are not empty, every returned product has its category
\* in C and the result is the first 12 of those products by descending
\* views_count, then descending creation time.  When C is empty the result
\* is the 12 available products not sold by U with the highest views_count.
C13_Recommendations ==
    request.view = "recommendations" /\ request.user \in Users =>
        LET U == request.user
            r == response.recommended_products
            history == HistoryCategories(U) # {}
            eligible == Recommendable(U)
            first(a, b) ==
                \/ a.views_count > b.views_count
                \/ history /\ a.views_count = b.views_count /\ a.pk > b.pk
            notafter(a, b) == IF history THEN first(a, b) ELSE a.views_count >= b.views_count
        IN  /\ Len(r) <= 12
            /\ \A i \in 1..Len(r) : r[i] \in eligible
            /\ \A i, j \in 1..Len(r) : i < j => r[i] # r[j] /\ notafter(r[i], r[j])
            /\ \A p \in eligible \ Range(r) : Len(r) = 12 /\ notafter(r[12], p)

\* C13 witness: a user with a history was served 12 recommendations out of
\* more than 12 candidates, the first with more views than the last
C13_Witness ==
    /\ request.view = "recommendations"
    /\ request.user \in Users
    /\ HistoryCategories(request.user) # {}
    /\ Cardinality(Recommendable(request.user)) > 12
    /\ Len(response.recommended_products) = 12
    /\ response.recommended_products[1].views_count
          > response.recommended_products[12].views_count

\* C13 witness: a user without history was served 12 recommendations out of
\* more than 12 candidates, a viewed product first
C13_WitnessFallback ==
    /\ request.view = "recommendations"
    /\ request.user \in Users
    /\ HistoryCategories(request.user) = {}
    /\ Cardinality(Recommendable(request.user)) > 12
    /\ Len(response.recommended_products) = 12
    /\ response.recommended_products[1].views_count > 0

(***************************************************************************)
(* Claims about concurrent requests.                                       *)
(***************************************************************************)
\* C14: when two cart_add requests by the same buyer for the same product
\* both arrived while the pair had no Cart row, then once both have returned,
\* whatever the interleaving of their statements, exactly one Cart row for
\* the pair exists, its quantity is 2, neither request returned an error, and
\* exactly one of them made the row: the other was applied as an increment.
C14_ConcurrentCartAdd ==
    \A w1, w2 \in Workers :
        /\ w1 # w2
        /\ workers[w1].pc = "done" /\ workers[w2].pc = "done"
        /\ workers[w1].view = "cart_add" /\ workers[w2].view = "cart_add"
        /\ workers[w1].user = workers[w2].user /\ workers[w1].pk = workers[w2].pk
        /\ workers[w1].fresh /\ workers[w2].fresh
        => /\ workers[w1].status = "OK" /\ workers[w2].status = "OK"
           /\ workers[w1].created # workers[w2].created
           /\ \E c \in carts :
                 /\ c.buyer = workers[w1].user /\ c.product = workers[w1].pk
                 /\ c.quantity = 2
                 /\ \A d \in carts : d.buyer = c.buyer /\ d.product = c.product => d = c

\* C14 witness: both requests missed the row in their get, one INSERT won,
\* the other met the unique constraint, and both have returned
C14_Witness ==
    \E w1, w2 \in Workers :
        /\ w1 # w2
        /\ workers[w1].pc = "done" /\ workers[w2].pc = "done"
        /\ workers[w1].view = "cart_add" /\ workers[w2].view = "cart_add"
        /\ workers[w1].user = workers[w2].user /\ workers[w1].pk = workers[w2].pk
        /\ workers[w1].fresh /\ workers[w2].fresh
        /\ workers[w1].created /\ workers[w2].retried
        /\ \E c \in carts : c.buyer = workers[w1].user /\ c.product = workers[w1].pk

\* C15: a product's views_count never decreases.  Under every interleaving of
\* product_detail requests (load the product, write the loaded value + 1) and
\* product_edit saves (load the product, write the whole row back), no step
\* leaves a product with a smaller views_count than it had before the step.
C15_ViewsCountMonotone ==
    [][\A p \in products : \A q \in products' :
            q.pk = p.pk => q.views_count >= p.views_count]_vars

(***************************************************************************)
(* Claims about the life of a message.                                     *)
(***************************************************************************)
\* message m is still stored after the step, with the same conversation,
\* sender, receiver and content, and its read flag changed only from false to
\* true in a step that serves m's receiver opening m's conversation
KeptByStep(m) ==
    /\ \E n \in msgs' : n.pk = m.pk
    /\ \A n \in msgs' : n.pk = m.pk =>
          /\ n.conversation = m.conversation
          /\ n.sender = m.sender
          /\ n.receiver = m.receiver
          /\ n.content = m.content
          /\ n.read # m.read =>
                /\ ~m.read
                /\ n.read
                /\ request'.view = "conversation_detail"
                /\ request'.user = m.receiver
                /\ request'.pk = m.conversation

\* the step serves the deletion, by its seller, of the product that m's
\* conversation is about
CascadeStep(m) ==
    /\ request'.view = "product_delete"
    /\ request'.method = "POST"
    /\ \E c \in conversations, p \in products :
          /\ c.pk = m.conversation
          /\ p.pk = c.product
          /\ p.pk = request'.pk
          /\ p.seller = request'.user

\* C16 as stated: under any sequence of handler operations a Message once
\* created is never deleted, its conversation, sender, receiver and content
\* never change, and its read flag only changes from false to true and only
\* when its receiver opens the conversation.
C16_MessagesAppendOnly ==
    [][\A m \in msgs : KeptByStep(m)]_vars

\* C16 amended: the same, except that the product_delete of the product a
\* conversation is about deletes the conversation's messages with it.
C16_MessagesKeptUntilCascade ==
    [][\A m \in msgs :
          IF CascadeStep(m) THEN \A n \in msgs' : n.pk # m.pk ELSE KeptByStep(m)]_vars

\* C16 witness: a message was read by its receiver and is still stored,
\* unchanged, after the seller edited the product it is about
C16_Witness ==
    /\ request.view = "product_edit"
    /\ response = Resp("Redirect", "Product updated successfully!")
    /\ \E m \in msgs, c \in conversations :
          /\ c.pk = m.conversation
          /\ c.product = request.pk
          /\ m.read
          /\ m.content = <<"o", "k">>

\* C16 witness: the seller deleted a product about which a message had been
\* sent, and the message went with it
C16_WitnessCascade ==
    /\ request.view = "product_delete"
    /\ response = Resp("Redirect", "Product deleted successfully!")
    /\ seq["message"] > 1
    /\ msgs = {}

====
